---------------------------- MODULE Spec2Model ----------------------------
(***************************************************************************)
(* A model of arbitrumagent/arbitrumAgent.ts: the process-wide wallet      *)
(* holder (BlockchainTools), the process-wide tokenMap, the tools of the   *)
(* catalog with their await points, the LangGraph turn loop (agent node,   *)
(* ToolNode, shouldContinue) and the Express handler around it.            *)
(*                                                                         *)
(* JavaScript runs one callback at a time, so the code between two awaits  *)
(* is one atomic action here; what happens at an await (the chain's or the *)
(* model's answer, another callback of the same process) is interleaved.   *)
(***************************************************************************)
EXTENDS Integers, Sequences, FiniteSets, TLC

\* ------------------------------------------------------------------ bounds
\* Concurrent HTTP requests (slots are reused once a request was answered).
MaxRequests == 1
\* Tool calls one AI message may carry (ToolNode runs them concurrently).
MaxToolCalls == 2
\* Tool calls in flight in the whole process at one time.
MaxInFlight == 2
\* LangGraph's recursionLimit (the library's default is 25; agent.invoke
\* passes no config): the supersteps one invocation may run.
recursionLimit == 3
\* Transactions the chain includes per account before it stops including.
MaxTx == 3
\* Item shapes concatenated into one batch input of BatchSpec.
MaxItems == 3
\* Wallet tool calls in the one AI message of WalletSpec.
MaxWalletCalls == 3
MaxTokens == 3

\* ------------------------------------------------------------ JS values
NoWallet == "<null>"
Undefined == "<undefined>"

\* Private-key material a request may carry; "junk" is no signing key.
Keys == {"k1", "k2"}
BadKey == "junk"

\* Keys of Object.prototype, which every object literal inherits.
ObjectPrototypeKeys == {"constructor"}

\* --------------------------------------------------- string conversions
\* String.prototype.toUpperCase on the tokens of the model.
ToUpperCase(t) ==
  CASE t = "eth" -> "ETH"
    [] t = "token" -> "TOKEN"
    [] t = "sol" -> "SOL"
    [] OTHER -> t

\* ethers.isAddress: a syntactically valid address.
IsAddress(t) == t \in {"0xA", "0xB"}

\* Number(t): "positive", "zero", "negative" or "NaN". A hex literal is a
\* number to JavaScript, the empty string is 0, undefined is NaN.
NumberOf(t) ==
  CASE t \in {"1", "2", "0.5", "0xA", "0xB"} -> "positive"
    [] t \in {"0", ""} -> "zero"
    [] t = "-1" -> "negative"
    [] OTHER -> "NaN"

\* A check that lets a missing amount through.
AmountRejectedUnlessMissing(amount) ==
  amount # Undefined /\ NumberOf(amount) # "positive"

\* isNaN(Number(amount)) || Number(amount) <= 0
AmountRejected(amount) == NumberOf(amount) # "positive"

\* ethers.parseEther: a decimal string with at most 18 decimals, else it throws.
ParseEtherOk(t) == t \in {"1", "2", "0.5", "0", "-1"}

\* ethers.parseUnits(t, 0): a decimal string with no decimals, else it throws.
ParseUnits0Ok(t) == t \in {"1", "2", "0", "-1"}

\* parseInt(totalSupply): "positive", "zero", "negative" or "NaN".
ParseIntOf(t) ==
  CASE t \in {"1", "2"} -> "positive"
    [] t \in {"0", "0.5"} -> "zero"
    [] t = "-1" -> "negative"
    [] OTHER -> "NaN"

\* new ethers.Wallet(privateKey, provider) throws on anything but a key.
IsPrivateKey(k) == k \in Keys

VARIABLES
  wallet,    \* blockchainTools.wallet: a key, or NoWallet
  tokenMap,  \* own properties of tokenMap: symbol -> contract address
  txCount,   \* the chain: transactions included per account
  reqs,      \* per request slot: pc, status, messages, steps, response
  calls      \* per request slot: the tool calls ToolNode is running

vars == <<wallet, tokenMap, txCount, reqs, calls>>

Slots == 1..MaxRequests

\* --------------------------------------------------------------- tokenMap
\* tokenMap is kept as its own properties in insertion order (the order
\* Object.entries gives): a sequence of [name, address] with distinct names.
OwnNames == {tokenMap[i].name : i \in 1..Len(tokenMap)}

\* tokenMap[name] as a condition: an own property (an address, a non-empty
\* string) or an inherited one (a function) is truthy, undefined is not.
TokenMapTruthy(name) == name \in OwnNames \/ name \in ObjectPrototypeKeys

\* tokenMap[name] is a string, which new ethers.Contract accepts as target.
TokenMapIsAddress(name) == name \in OwnNames

\* A registry kept as a list that every creation is appended to.
TokenMapSetAppends(symbol, address) ==
  Append(tokenMap, [name |-> symbol, address |-> address])

\* A write to an existing key that is not one assignment: the entry keeps
\* part of its old value.
TokenMapSetPartial(symbol, address) ==
  IF symbol \in OwnNames
  THEN [i \in 1..Len(tokenMap) |->
          IF tokenMap[i].name = symbol
          THEN [name |-> symbol,
                address |-> <<address[1], tokenMap[i].address[2]>>]
          ELSE tokenMap[i]]
  ELSE Append(tokenMap, [name |-> symbol, address |-> address])

\* tokenMap[symbol] = contractAddress: a new key is added last, an existing
\* key keeps its place and gets the new value.
TokenMapSet(symbol, address) ==
  IF symbol \in OwnNames
  THEN [i \in 1..Len(tokenMap) |->
          IF tokenMap[i].name = symbol
          THEN [name |-> symbol, address |-> address] ELSE tokenMap[i]]
  ELSE Append(tokenMap, [name |-> symbol, address |-> address])

\* The address a deployment gets: a function of the deployer and its nonce.
ContractAddress(deployer, n) == <<deployer, n>>

\* ------------------------------------------------- batch input, validation
\* The transfers string: a sequence of words and single space characters,
\* no two words next to each other.
Space == " "

\* The words of tokens with one space between neighbours.
Join(tokens) ==
  [i \in 1..(IF Len(tokens) = 0 THEN 0 ELSE 2 * Len(tokens) - 1) |->
     IF i % 2 = 1 THEN tokens[(i + 1) \div 2] ELSE Space]

\* String.prototype.trim: without the spaces at both ends.
Trim(str) ==
  LET inked == {i \in 1..Len(str) : str[i] # Space}
  IN IF inked = {} THEN <<>>
     ELSE SubSeq(str, CHOOSE i \in inked : \A j \in inked : i <= j,
                      CHOOSE i \in inked : \A j \in inked : i >= j)

\* String.prototype.split(" "): a new part at every space character, so two
\* spaces in a row have an empty part between them, and "" gives [""].
RECURSIVE SplitFrom(_, _, _, _)
SplitFrom(str, i, part, parts) ==
  IF i > Len(str) THEN Append(parts, part)
  ELSE IF str[i] = Space THEN SplitFrom(str, i + 1, "", Append(parts, part))
  ELSE SplitFrom(str, i + 1, str[i], parts)

Split(str) == SplitFrom(str, 1, "", <<>>)

\* parts[i] of a JavaScript array: undefined past the end.
At(parts, i) == IF i < Len(parts) THEN parts[i + 1] ELSE Undefined

Rejected(msg, detail, at) ==
  [ok |-> FALSE, msg |-> msg, detail |-> detail, at |-> at, transferList |-> <<>>]

\* The validation loop of BatchMixedTransferTool._call, from index i on.
RECURSIVE ParseTransfers(_, _, _)
ParseTransfers(parts, i, list) ==
  IF i >= Len(parts)
  THEN [ok |-> TRUE, msg |-> "", detail |-> "", at |-> i, transferList |-> list]
  ELSE LET type == ToUpperCase(parts[i + 1])
           to == At(parts, i + 1)
           amount == At(parts, i + 2)
       IN IF type = "TOKEN"
          THEN IF i + 3 >= Len(parts)
               THEN Rejected("Missing token name", "", i)
               ELSE LET tokenName == parts[i + 4]
                    IN IF ~TokenMapTruthy(tokenName)
                       THEN Rejected("Token not found", tokenName, i)
                       ELSE IF ~IsAddress(to) THEN Rejected("Invalid address", to, i)
                       ELSE IF AmountRejected(amount)
                       THEN Rejected("Invalid amount", amount, i)
                       ELSE ParseTransfers(parts, i + 4,
                              Append(list, [type |-> type, to |-> to,
                                            amount |-> amount,
                                            tokenName |-> tokenName]))
          ELSE IF type # "ETH" THEN Rejected("Invalid type", type, i)
          ELSE IF ~IsAddress(to) THEN Rejected("Invalid address", to, i)
          ELSE IF AmountRejected(amount) THEN Rejected("Invalid amount", amount, i)
          ELSE ParseTransfers(parts, i + 3,
                 Append(list, [type |-> type, to |-> to, amount |-> amount,
                               tokenName |-> Undefined]))

\* ------------------------------------------------------------ tool calls
\* What a tool call produced: nothing yet, a returned string or a thrown Error.
NoOut == [kind |-> "none", msg |-> "", detail |-> "", count |-> 0, data |-> <<>>]
Return(msg, detail) ==
  [kind |-> "return", msg |-> msg, detail |-> detail, count |-> 0, data |-> <<>>]
Throw(msg) ==
  [kind |-> "throw", msg |-> msg, detail |-> "", count |-> 0, data |-> <<>>]

\* One tool call of an AI message and the locals of its _call:
\*   w            what this.tools.getWallet() answered the _call (const wallet)
\*   transferList, idx, nonce, results   the locals of the batch (idx is the
\*                loop's index), entries and balances those of getBalance
\*   baseNonce    what wallet.getNonce() answered (-1: not read)
\*   visited      the indices the execution loop has entered, in order
\*   reads        chain reads the call has issued
\*   sent         the transactions it signed and broadcast: item, nonce, signer
\*   signatures   the messages it signed
NewCall(op, arg) ==
  [op |-> op, arg |-> arg, pc |-> "start", w |-> NoWallet,
   transferList |-> <<>>, idx |-> 0, nonce |-> 0, baseNonce |-> -1,
   results |-> <<>>, visited |-> <<>>, entries |-> <<>>, balances |-> <<>>,
   reads |-> 0, sent |-> <<>>, signatures |-> 0, out |-> NoOut]

Finished(c, out) == [c EXCEPT !.pc = "done", !.out = out]

HasCall(r, p) == p \in 1..Len(calls[r])

InFlight ==
  LET n[r \in 0..MaxRequests] == IF r = 0 THEN 0 ELSE n[r - 1] + Len(calls[r])
  IN n[MaxRequests]

\* A JavaScript string as a condition.
StringTruthy(s) == s \notin {"", Undefined}

\* ----------------------------------------------------- batch: execution
\* `${type === "ETH" ? "ETH" : tokenName}`
ItemLabel(item) == IF item.type = "ETH" THEN "ETH" ELSE item.tokenName

\* A catch block around the whole loop instead of inside it: the failed item
\* is recorded and the remaining items are given up.
CatchItemErrorAborts(c, errorMsg) ==
  LET item == c.transferList[c.idx + 1]
  IN [c EXCEPT !.results = Append(@, [num |-> c.idx + 1, label |-> ItemLabel(item),
                                      to |-> item.to, amount |-> item.amount,
                                      status |-> "Failed", link |-> <<>>,
                                      error |-> errorMsg]),
               !.idx = Len(c.transferList)]

\* A catch block that gives a failed item a second attempt before it
\* records the failure.
CatchItemErrorRetries(c, errorMsg) ==
  LET item == c.transferList[c.idx + 1]
      attempts == Cardinality({k \in 1..Len(c.visited) : c.visited[k] = c.idx})
  IN IF attempts < 2 THEN c
     ELSE [c EXCEPT !.results = Append(@, [num |-> c.idx + 1, label |-> ItemLabel(item),
                                           to |-> item.to, amount |-> item.amount,
                                           status |-> "Failed", link |-> <<>>,
                                           error |-> errorMsg]),
                    !.idx = @ + 1]

\* The catch block of the execution loop: the item is recorded as Failed and
\* the for loop goes on with the next item; nonce is left as it is.
CatchItemError(c, errorMsg) ==
  LET item == c.transferList[c.idx + 1]
  IN [c EXCEPT !.results = Append(@, [num |-> c.idx + 1, label |-> ItemLabel(item),
                                      to |-> item.to, amount |-> item.amount,
                                      status |-> "Failed", link |-> <<>>,
                                      error |-> errorMsg]),
               !.idx = @ + 1]

\* A loop that asks the chain for the nonce again after each receipt.
RecordReceiptRereads(c, hash) ==
  LET item == c.transferList[c.idx + 1]
  IN [c EXCEPT !.results = Append(@, [num |-> c.idx + 1, label |-> ItemLabel(item),
                                      to |-> item.to, amount |-> item.amount,
                                      status |-> "Successful", link |-> hash,
                                      error |-> ""]),
               !.reads = @ + 1,
               !.nonce = txCount[c.w],
               !.idx = @ + 1]

\* The end of the try block after a receipt: the item is recorded as
\* Successful, then nonce++, and the for loop goes on.
RecordReceipt(c, hash) ==
  LET item == c.transferList[c.idx + 1]
  IN [c EXCEPT !.results = Append(@, [num |-> c.idx + 1, label |-> ItemLabel(item),
                                      to |-> item.to, amount |-> item.amount,
                                      status |-> "Successful", link |-> hash,
                                      error |-> ""]),
               !.nonce = @ + 1,
               !.idx = @ + 1]

\* An item that is neither "ETH" nor a "TOKEN" with a truthy tokenName runs
\* neither branch of the try block: nothing is pushed, and nonce++.
SkipItem(c) == [c EXCEPT !.nonce = @ + 1, !.idx = @ + 1]

\* The summary returned after the loop.
BatchSummary(c) ==
  Finished(c, [kind |-> "return", msg |-> "batch completed", detail |-> "",
               count |-> Len(c.results), data |-> c.results])

\* The execution loop from item c.idx up to its next await (a transaction
\* handed to the signer) or to the summary.
RECURSIVE BatchLoop(_)
BatchLoop(c) ==
  IF c.idx >= Len(c.transferList) THEN BatchSummary(c)
  ELSE LET item == c.transferList[c.idx + 1]
           v == [c EXCEPT !.visited = Append(@, c.idx)]
       IN IF item.type = "ETH"
          THEN IF ParseEtherOk(item.amount)
               THEN [v EXCEPT !.pc = "send"]
               ELSE BatchLoop(CatchItemError(v, "invalid FixedNumber string value"))
          ELSE IF item.type = "TOKEN" /\ StringTruthy(item.tokenName)
          THEN IF ~TokenMapIsAddress(item.tokenName)
               THEN BatchLoop(CatchItemError(v, "invalid value for Contract target"))
               ELSE IF ~ParseUnits0Ok(item.amount)
               THEN BatchLoop(CatchItemError(v, "invalid FixedNumber string value"))
               ELSE [v EXCEPT !.pc = "send"]
          ELSE BatchLoop(SkipItem(v))

\* batchMixedTransfer without its wallet check.
BatchWalletUnguarded(w) == FALSE

\* if (!wallet) return "No wallet set. ..." of BatchMixedTransferTool._call.
BatchWalletGuard(w) == w = NoWallet

\* A tool holding a lock of the session: a batch starts only while no other
\* batch is between its validation and its summary.
BatchMixedTransferCallLocked(r, p) ==
  /\ \A r2 \in Slots : \A p2 \in 1..Len(calls[r2]) :
       calls[r2][p2].op = "batchMixedTransfer"
         => calls[r2][p2].pc \in {"start", "done"}
  /\ HasCall(r, p)
  /\ calls[r][p].op = "batchMixedTransfer"
  /\ calls[r][p].pc = "start"
  /\ LET c == [calls[r][p] EXCEPT !.w = wallet]
         parts == Split(Trim(c.arg))
         pr == ParseTransfers(parts, 0, <<>>)
     IN calls' = [calls EXCEPT ![r][p] =
          IF BatchWalletGuard(wallet) THEN Finished(c, Return("No wallet set", ""))
          ELSE IF Len(parts) < 3 THEN Finished(c, Return("Invalid format", ""))
          ELSE IF ~pr.ok THEN Finished(c, Return(pr.msg, pr.detail))
          ELSE IF c.w = NoWallet THEN Finished(c, Throw("TypeError"))
          ELSE [c EXCEPT !.transferList = pr.transferList,
                         !.reads = @ + 1, !.pc = "getNonce"]]
  /\ UNCHANGED <<wallet, tokenMap, txCount, reqs>>

\* BatchMixedTransferTool._call up to its first await: the wallet check, the
\* split and the validation loop; a valid batch issues wallet.getNonce().
BatchMixedTransferCall(r, p) ==
  /\ HasCall(r, p)
  /\ calls[r][p].op = "batchMixedTransfer"
  /\ calls[r][p].pc = "start"
  /\ LET c == [calls[r][p] EXCEPT !.w = wallet]
         parts == Split(Trim(c.arg))
         pr == ParseTransfers(parts, 0, <<>>)
     IN calls' = [calls EXCEPT ![r][p] =
          IF BatchWalletGuard(wallet) THEN Finished(c, Return("No wallet set", ""))
          ELSE IF Len(parts) < 3 THEN Finished(c, Return("Invalid format", ""))
          ELSE IF ~pr.ok THEN Finished(c, Return(pr.msg, pr.detail))
          ELSE IF c.w = NoWallet THEN Finished(c, Throw("TypeError"))
          ELSE [c EXCEPT !.transferList = pr.transferList,
                         !.reads = @ + 1, !.pc = "getNonce"]]
  /\ UNCHANGED <<wallet, tokenMap, txCount, reqs>>

\* wallet.getNonce() answers (or the RPC fails, outside any try block), and
\* the execution loop starts.
BatchGetNonce(r, p) ==
  /\ HasCall(r, p)
  /\ calls[r][p].op = "batchMixedTransfer"
  /\ calls[r][p].pc = "getNonce"
  /\ LET c == calls[r][p]
     IN \/ calls' = [calls EXCEPT ![r][p] =
               BatchLoop([c EXCEPT !.nonce = txCount[c.w],
                                   !.baseNonce = txCount[c.w]])]
        \/ calls' = [calls EXCEPT ![r][p] = Finished(c, Throw("could not read nonce"))]
  /\ UNCHANGED <<wallet, tokenMap, txCount, reqs>>

\* A loop that does not await the receipt: it goes on to the next item with
\* the next nonce as soon as the transaction is broadcast.
SubmittedNotAwaited(c) ==
  BatchLoop([c EXCEPT !.sent = Append(@, [idx |-> c.idx, nonce |-> c.nonce,
                                          signer |-> c.w]),
                      !.nonce = @ + 1,
                      !.idx = @ + 1])

\* A loop that asks the session for its wallet again at every item instead
\* of using the one it captured when the call started.
SubmittedBySession(c) ==
  [c EXCEPT !.pc = "wait",
            !.sent = Append(@, [idx |-> c.idx, nonce |-> c.nonce, signer |-> wallet])]

\* await wallet.sendTransaction(tx) / await tokenContract.transfer(...) has
\* answered with the broadcast transaction; the loop awaits its receipt.
Submitted(c) ==
  [c EXCEPT !.pc = "wait",
            !.sent = Append(@, [idx |-> c.idx, nonce |-> c.nonce, signer |-> c.w])]

\* wallet.sendTransaction / tokenContract.transfer answers: the transaction
\* was signed by the captured wallet and broadcast with the explicit nonce,
\* or the call threw (signing error, insufficient funds, nonce too low, RPC).
BatchSend(r, p) ==
  /\ HasCall(r, p)
  /\ calls[r][p].op = "batchMixedTransfer"
  /\ calls[r][p].pc = "send"
  /\ LET c == calls[r][p]
     IN \/ /\ c.nonce >= txCount[c.w]
           /\ txCount[c.w] < MaxTx
           /\ calls' = [calls EXCEPT ![r][p] = Submitted(c)]
        \/ calls' = [calls EXCEPT ![r][p] =
                BatchLoop(CatchItemError(c, "transaction rejected"))]
  /\ UNCHANGED <<wallet, tokenMap, txCount, reqs>>

\* txResponse.wait() answers: the transaction was included (successfully, or
\* reverted, which throws), or another transaction took its nonce.
BatchWait(r, p) ==
  /\ HasCall(r, p)
  /\ calls[r][p].op = "batchMixedTransfer"
  /\ calls[r][p].pc = "wait"
  /\ LET c == calls[r][p]
     IN \/ /\ c.nonce = txCount[c.w]
           /\ txCount' = [txCount EXCEPT ![c.w] = @ + 1]
           /\ \/ calls' = [calls EXCEPT ![r][p] =
                     BatchLoop(RecordReceipt(c, <<c.w, c.nonce>>))]
              \/ calls' = [calls EXCEPT ![r][p] =
                     BatchLoop(CatchItemError(c, "transaction execution reverted"))]
        \/ /\ c.nonce < txCount[c.w]
           /\ calls' = [calls EXCEPT ![r][p] =
                     BatchLoop(CatchItemError(c, "transaction was replaced"))]
           /\ UNCHANGED txCount
  /\ UNCHANGED <<wallet, tokenMap, reqs>>

BatchStep(r, p) ==
  \/ BatchMixedTransferCall(r, p)
  \/ BatchGetNonce(r, p)
  \/ BatchSend(r, p)
  \/ BatchWait(r, p)

\* ------------------------------------------------------ the other tools
\* A setWallet that keeps the wallet already set instead of replacing it.
SetWalletValueKeepsFirst(privateKey, old) ==
  IF IsPrivateKey(privateKey) /\ old = NoWallet THEN privateKey ELSE old

\* A setWallet that drops the wallet it had when the key is bad.
SetWalletValueClearing(privateKey, old) ==
  IF IsPrivateKey(privateKey) THEN privateKey ELSE NoWallet

\* blockchainTools.setWallet after new ethers.Wallet(privateKey, provider):
\* the constructor throws on bad material before setWallet is reached.
SetWalletValue(privateKey, old) == IF IsPrivateKey(privateKey) THEN privateKey ELSE old

\* SetWalletTool._call (no await).
SetWalletCall(r, p) ==
  /\ HasCall(r, p)
  /\ calls[r][p].op = "setWallet"
  /\ calls[r][p].pc = "start"
  /\ LET c == calls[r][p]
         privateKey == c.arg[1]
     IN /\ wallet' = SetWalletValue(privateKey, wallet)
        /\ calls' = [calls EXCEPT ![r][p] =
             IF IsPrivateKey(privateKey)
             THEN Finished(c, Return("Wallet set to address", privateKey))
             ELSE Finished(c, Throw("Failed to set wallet"))]
  /\ UNCHANGED <<tokenMap, txCount, reqs>>

\* A clearWallet that leaves the wallet where it is.
ClearWalletKeeps(old) == old

\* blockchainTools.clearWallet(): this.wallet = null, whatever it was.
ClearWallet(old) == NoWallet

\* DisconnectWalletTool._call: blockchainTools.clearWallet().
DisconnectWalletCall(r, p) ==
  /\ HasCall(r, p)
  /\ calls[r][p].op = "disconnectWallet"
  /\ calls[r][p].pc = "start"
  /\ wallet' = ClearWallet(wallet)
  /\ calls' = [calls EXCEPT ![r][p] =
       Finished(calls[r][p], Return("Wallet disconnected successfully", ""))]
  /\ UNCHANGED <<tokenMap, txCount, reqs>>

\* GetBalanceTool._call up to the ETH balance read.
GetBalanceCall(r, p) ==
  /\ HasCall(r, p)
  /\ calls[r][p].op = "getBalance"
  /\ calls[r][p].pc = "start"
  /\ LET c == [calls[r][p] EXCEPT !.w = wallet]
     IN calls' = [calls EXCEPT ![r][p] =
          IF wallet = NoWallet THEN Finished(c, Return("No wallet set", ""))
          ELSE [c EXCEPT !.reads = @ + 1, !.pc = "ethBalance"]]
  /\ UNCHANGED <<wallet, tokenMap, txCount, reqs>>

\* balances.join("\n"), returned after the loop over the entries.
BalancesReturned(c) ==
  Finished(c, [kind |-> "return", msg |-> "balances", detail |-> "",
               count |-> Len(c.balances), data |-> c.balances])

\* provider.getBalance answers (a failure is outside any try block); the loop
\* over Object.entries(tokenMap) starts with the first balanceOf read.
GetBalanceEth(r, p) ==
  /\ HasCall(r, p)
  /\ calls[r][p].op = "getBalance"
  /\ calls[r][p].pc = "ethBalance"
  /\ LET c == calls[r][p]
         b == [c EXCEPT !.balances = Append(@, [name |-> "ETH", line |-> "Balance"]),
                        !.entries = tokenMap, !.idx = 0]
     IN \/ calls' = [calls EXCEPT ![r][p] =
               IF Len(tokenMap) = 0 THEN BalancesReturned(b)
               ELSE [b EXCEPT !.reads = @ + 1, !.pc = "balanceOf"]]
        \/ calls' = [calls EXCEPT ![r][p] = Finished(c, Throw("could not read balance"))]
  /\ UNCHANGED <<wallet, tokenMap, txCount, reqs>>

\* A try block around the whole loop: the first failed read adds its line
\* and ends the loop.
GetBalanceTokenAborts(r, p) ==
  /\ HasCall(r, p)
  /\ calls[r][p].op = "getBalance"
  /\ calls[r][p].pc = "balanceOf"
  /\ LET c == calls[r][p]
         tokenName == c.entries[c.idx + 1].name
     IN \E line \in {"Balance", "Unable to fetch"} :
          LET b == [c EXCEPT !.balances = Append(@, [name |-> tokenName, line |-> line]),
                             !.idx = @ + 1]
          IN calls' = [calls EXCEPT ![r][p] =
               IF b.idx >= Len(b.entries) \/ line = "Unable to fetch"
               THEN BalancesReturned(b)
               ELSE [b EXCEPT !.reads = @ + 1]]
  /\ UNCHANGED <<wallet, tokenMap, txCount, reqs>>

\* tokenContract.balanceOf answers or fails (inside the loop's try block).
GetBalanceToken(r, p) ==
  /\ HasCall(r, p)
  /\ calls[r][p].op = "getBalance"
  /\ calls[r][p].pc = "balanceOf"
  /\ LET c == calls[r][p]
         tokenName == c.entries[c.idx + 1].name
     IN \E line \in {"Balance", "Unable to fetch"} :
          LET b == [c EXCEPT !.balances = Append(@, [name |-> tokenName, line |-> line]),
                             !.idx = @ + 1]
          IN calls' = [calls EXCEPT ![r][p] =
               IF b.idx >= Len(b.entries) THEN BalancesReturned(b)
               ELSE [b EXCEPT !.reads = @ + 1]]
  /\ UNCHANGED <<wallet, tokenMap, txCount, reqs>>

\* TransferTokensTool._call up to wallet.sendTransaction.
TransferTokensCall(r, p) ==
  /\ HasCall(r, p)
  /\ calls[r][p].op = "transferTokens"
  /\ calls[r][p].pc = "start"
  /\ LET c == [calls[r][p] EXCEPT !.w = wallet]
         amount == c.arg[2]
     IN calls' = [calls EXCEPT ![r][p] =
          IF wallet = NoWallet THEN Finished(c, Return("No wallet set", ""))
          ELSE IF ~ParseEtherOk(amount)
          THEN Finished(c, Throw("Failed to transfer tokens"))
          ELSE [c EXCEPT !.reads = @ + 1, !.pc = "send"]]
  /\ UNCHANGED <<wallet, tokenMap, txCount, reqs>>

\* wallet.sendTransaction answers: the signer took the pending nonce, signed
\* and broadcast, or threw (a recipient that resolves to no address, a
\* negative value, which no transaction can carry, funds, signing, RPC).
TransferTokensSend(r, p) ==
  /\ HasCall(r, p)
  /\ calls[r][p].op = "transferTokens"
  /\ calls[r][p].pc = "send"
  /\ LET c == calls[r][p]
         to == c.arg[1]
         amount == c.arg[2]
     IN \/ /\ IsAddress(to)
           /\ NumberOf(amount) # "negative"
           /\ txCount[c.w] < MaxTx
           /\ calls' = [calls EXCEPT ![r][p] =
                [c EXCEPT !.pc = "wait", !.nonce = txCount[c.w],
                          !.sent = Append(@, [idx |-> 0, nonce |-> txCount[c.w],
                                              signer |-> c.w])]]
        \/ calls' = [calls EXCEPT ![r][p] = Finished(c, Throw("Failed to transfer tokens"))]
  /\ UNCHANGED <<wallet, tokenMap, txCount, reqs>>

\* txResponse.wait() answers.
TransferTokensWait(r, p) ==
  /\ HasCall(r, p)
  /\ calls[r][p].op = "transferTokens"
  /\ calls[r][p].pc = "wait"
  /\ LET c == calls[r][p]
     IN \/ /\ c.nonce = txCount[c.w]
           /\ txCount' = [txCount EXCEPT ![c.w] = @ + 1]
           /\ \/ calls' = [calls EXCEPT ![r][p] = Finished(c, Return("Transferred", c.arg[1]))]
              \/ calls' = [calls EXCEPT ![r][p] = Finished(c, Throw("Failed to transfer tokens"))]
        \/ /\ c.nonce < txCount[c.w]
           /\ calls' = [calls EXCEPT ![r][p] = Finished(c, Throw("Failed to transfer tokens"))]
           /\ UNCHANGED txCount
  /\ UNCHANGED <<wallet, tokenMap, reqs>>

\* SignMessageTool._call: wallet.signMessage signs when it is called.
SignMessageCall(r, p) ==
  /\ HasCall(r, p)
  /\ calls[r][p].op = "signMessage"
  /\ calls[r][p].pc = "start"
  /\ LET c == [calls[r][p] EXCEPT !.w = wallet]
     IN calls' = [calls EXCEPT ![r][p] =
          IF wallet = NoWallet THEN Finished(c, Return("No wallet set", ""))
          ELSE Finished([c EXCEPT !.signatures = @ + 1],
                        Return("Message signed", wallet))]
  /\ UNCHANGED <<wallet, tokenMap, txCount, reqs>>

\* getTransactionHistory without its wallet check.
GetTransactionHistoryUnguarded(w) == FALSE

\* if (!wallet) return "No wallet set." of GetTransactionHistoryTool._call.
GetTransactionHistoryGuard(w) == w = NoWallet

\* GetTransactionHistoryTool._call up to provider.getBlockNumber().
GetTransactionHistoryCall(r, p) ==
  /\ HasCall(r, p)
  /\ calls[r][p].op = "getTransactionHistory"
  /\ calls[r][p].pc = "start"
  /\ LET c == [calls[r][p] EXCEPT !.w = wallet]
     IN calls' = [calls EXCEPT ![r][p] =
          IF GetTransactionHistoryGuard(wallet)
          THEN Finished(c, Return("No wallet set", ""))
          ELSE [c EXCEPT !.reads = @ + 1, !.pc = "blockNumber"]]
  /\ UNCHANGED <<wallet, tokenMap, txCount, reqs>>

\* getBlockNumber answers (a failure is outside the try block); the filter
\* reads wallet.address and provider.getLogs is called.
GetTransactionHistoryBlock(r, p) ==
  /\ HasCall(r, p)
  /\ calls[r][p].op = "getTransactionHistory"
  /\ calls[r][p].pc = "blockNumber"
  /\ LET c == calls[r][p]
     IN \/ calls' = [calls EXCEPT ![r][p] =
               IF c.w = NoWallet THEN Finished(c, Throw("TypeError"))
               ELSE [c EXCEPT !.reads = @ + 1, !.pc = "getLogs"]]
        \/ calls' = [calls EXCEPT ![r][p] = Finished(c, Throw("could not read block number"))]
  /\ UNCHANGED <<wallet, tokenMap, txCount, reqs>>

\* provider.getLogs answers, or fails and the catch block returns a string.
GetTransactionHistoryLogs(r, p) ==
  /\ HasCall(r, p)
  /\ calls[r][p].op = "getTransactionHistory"
  /\ calls[r][p].pc = "getLogs"
  /\ LET c == calls[r][p]
     IN \E msg \in {"Recent transactions", "Failed to fetch transaction history"} :
          calls' = [calls EXCEPT ![r][p] = Finished(c, Return(msg, ""))]
  /\ UNCHANGED <<wallet, tokenMap, txCount, reqs>>

\* GetGasPriceTool._call up to provider.getFeeData().
GetGasPriceCall(r, p) ==
  /\ HasCall(r, p)
  /\ calls[r][p].op = "getGasPrice"
  /\ calls[r][p].pc = "start"
  /\ calls' = [calls EXCEPT ![r][p] =
       [calls[r][p] EXCEPT !.reads = @ + 1, !.pc = "feeData"]]
  /\ UNCHANGED <<wallet, tokenMap, txCount, reqs>>

\* getFeeData answers (with or without a gas price) or fails (no try block).
GetGasPriceFee(r, p) ==
  /\ HasCall(r, p)
  /\ calls[r][p].op = "getGasPrice"
  /\ calls[r][p].pc = "feeData"
  /\ LET c == calls[r][p]
     IN \/ \E msg \in {"Current gas price", "Unable to fetch gas price"} :
             calls' = [calls EXCEPT ![r][p] = Finished(c, Return(msg, ""))]
        \/ calls' = [calls EXCEPT ![r][p] = Finished(c, Throw("could not read fee data"))]
  /\ UNCHANGED <<wallet, tokenMap, txCount, reqs>>

\* CreateTokenTool._call up to factory.deploy.
CreateTokenCall(r, p) ==
  /\ HasCall(r, p)
  /\ calls[r][p].op = "createToken"
  /\ calls[r][p].pc = "start"
  /\ LET c == [calls[r][p] EXCEPT !.w = wallet]
         totalSupply == c.arg[2]
     IN calls' = [calls EXCEPT ![r][p] =
          IF wallet = NoWallet THEN Finished(c, Return("No wallet set", ""))
          ELSE IF ParseIntOf(totalSupply) # "positive"
          THEN Finished(c, Throw("Failed to create token"))
          ELSE [c EXCEPT !.reads = @ + 1, !.pc = "deploy"]]
  /\ UNCHANGED <<wallet, tokenMap, txCount, reqs>>

\* A tool that registers the symbol as soon as the deployment is broadcast,
\* before it is confirmed.
CreateTokenDeployRegisters(r, p) ==
  /\ HasCall(r, p)
  /\ calls[r][p].op = "createToken"
  /\ calls[r][p].pc = "deploy"
  /\ LET c == calls[r][p]
     IN \/ /\ txCount[c.w] < MaxTx
           /\ tokenMap' = TokenMapSet(c.arg[1], ContractAddress(c.w, txCount[c.w]))
           /\ calls' = [calls EXCEPT ![r][p] =
                [c EXCEPT !.pc = "waitForDeployment", !.nonce = txCount[c.w],
                          !.sent = Append(@, [idx |-> 0, nonce |-> txCount[c.w],
                                              signer |-> c.w])]]
        \/ /\ calls' = [calls EXCEPT ![r][p] = Finished(c, Throw("Failed to create token"))]
           /\ UNCHANGED tokenMap
  /\ UNCHANGED <<wallet, txCount, reqs>>

\* factory.deploy answers: the deployment was signed and broadcast, or threw.
CreateTokenDeploy(r, p) ==
  /\ HasCall(r, p)
  /\ calls[r][p].op = "createToken"
  /\ calls[r][p].pc = "deploy"
  /\ LET c == calls[r][p]
     IN \/ /\ txCount[c.w] < MaxTx
           /\ calls' = [calls EXCEPT ![r][p] =
                [c EXCEPT !.pc = "waitForDeployment", !.nonce = txCount[c.w],
                          !.sent = Append(@, [idx |-> 0, nonce |-> txCount[c.w],
                                              signer |-> c.w])]]
        \/ calls' = [calls EXCEPT ![r][p] = Finished(c, Throw("Failed to create token"))]
  /\ UNCHANGED <<wallet, tokenMap, txCount, reqs>>

\* contract.waitForDeployment() answers; on success tokenMap[symbol] is set.
CreateTokenWait(r, p) ==
  /\ HasCall(r, p)
  /\ calls[r][p].op = "createToken"
  /\ calls[r][p].pc = "waitForDeployment"
  /\ LET c == calls[r][p]
         symbol == c.arg[1]
     IN \/ /\ c.nonce = txCount[c.w]
           /\ txCount' = [txCount EXCEPT ![c.w] = @ + 1]
           /\ \/ /\ tokenMap' = TokenMapSet(symbol, ContractAddress(c.w, c.nonce))
                 /\ calls' = [calls EXCEPT ![r][p] =
                      Finished(c, Return("Token created", symbol))]
              \/ /\ calls' = [calls EXCEPT ![r][p] =
                      Finished(c, Throw("Failed to create token"))]
                 /\ UNCHANGED tokenMap
        \/ /\ c.nonce < txCount[c.w]
           /\ calls' = [calls EXCEPT ![r][p] = Finished(c, Throw("Failed to create token"))]
           /\ UNCHANGED <<txCount, tokenMap>>
  /\ UNCHANGED <<wallet, reqs>>

ToolStep(r, p) ==
  \/ SetWalletCall(r, p)
  \/ DisconnectWalletCall(r, p)
  \/ GetBalanceCall(r, p)
  \/ GetBalanceEth(r, p)
  \/ GetBalanceToken(r, p)
  \/ TransferTokensCall(r, p)
  \/ TransferTokensSend(r, p)
  \/ TransferTokensWait(r, p)
  \/ SignMessageCall(r, p)
  \/ GetTransactionHistoryCall(r, p)
  \/ GetTransactionHistoryBlock(r, p)
  \/ GetTransactionHistoryLogs(r, p)
  \/ GetGasPriceCall(r, p)
  \/ GetGasPriceFee(r, p)
  \/ CreateTokenCall(r, p)
  \/ CreateTokenDeploy(r, p)
  \/ CreateTokenWait(r, p)
  \/ BatchStep(r, p)

\* ----------------------------------------------------------- conversation
HumanMessage(content, detail) ==
  [type |-> "human", content |-> content, detail |-> detail,
   tool_calls |-> <<>>, error |-> FALSE]

AIMessage(content, tool_calls) ==
  [type |-> "ai", content |-> content, detail |-> "",
   tool_calls |-> tool_calls, error |-> FALSE]

\* A ToolNode that lets a tool's Error reject the node.
RethrowToolErrors == FALSE

\* ToolNode's default (handleToolErrors): an Error a tool throws becomes the
\* content of its ToolMessage instead of rejecting the node.
HandleToolErrors == TRUE

\* The ToolMessage ToolNode makes of a finished call.
ToolMessage(c) ==
  [type |-> "tool", content |-> c.out.msg, detail |-> c.out.detail,
   tool_calls |-> <<>>, error |-> c.out.kind = "throw"]

Last(s) == s[Len(s)]

\* shouldContinue: "tools" when the last message carries tool calls, else END.
ShouldContinue(messages) ==
  IF Len(Last(messages).tool_calls) > 0 THEN "tools" ELSE "END"

\* A request slot nobody is using.
Idle ==
  [pc |-> "idle", status |-> 0, messages |-> <<>>, steps |-> 0,
   privateKey |-> "", response |-> ""]

\* res.status(s).json(...): the handler has answered.
Answered(q, s, response) ==
  [q EXCEPT !.pc = "done", !.status = s, !.response = response]

\* ------------------------------------------------- what the model may ask
\* Inputs of POST /agent: the instruction (empty, or some text) and the
\* optional private key.
Inputs == {"", "text"}
PrivateKeys == {"", "k1", BadKey}

TransferArgs == {<<"0xA", "1">>, <<"0xA", "abc">>}
CreateArgs == {<<"MTK", "1">>, <<"MTK", "0">>}

\* The transfers strings the system specification tries.
SystemBatchInputs ==
  { Join(<<"ETH", "0xA", "1", "ETH", "0xB", "1">>),
    Join(<<"ETH", "0xA", "1", "TOKEN", "0xB", "1", "MTK">>) }

\* The tool calls the model may request in the conversation of request q: any
\* tool of the catalog; setWallet only with the key the request carried.
ToolCalls(q) ==
  {[name |-> "setWallet", args |-> <<k>>] : k \in {q.privateKey} \ {""}}
  \cup {[name |-> n, args |-> <<>>] :
          n \in {"disconnectWallet", "getBalance", "signMessage",
                 "getTransactionHistory", "getGasPrice"}}
  \cup {[name |-> "transferTokens", args |-> a] : a \in TransferArgs}
  \cup {[name |-> "createToken", args |-> a] : a \in CreateArgs}
  \cup {[name |-> "batchMixedTransfer", args |-> a] : a \in SystemBatchInputs}

ToolCallSeqs(q) ==
  UNION {[1..n -> ToolCalls(q)] : n \in 1..MaxToolCalls}

\* ------------------------------------------------------------ turn loop
\* A channel that keeps only what the last node returned.
ReducerReplaces(x, y) == y

\* The reducer of the messages channel: (x ?? []).concat(y ?? []).
Reducer(x, y) == x \o y

\* A graph that never runs out of supersteps.
NoRecursionLimit(steps) == TRUE

\* agent.invoke passes no recursionLimit: a superstep runs only while the
\* invocation has run fewer than recursionLimit of them.
WithinRecursionLimit(steps) == steps < recursionLimit

\* A handler that runs the loop on any input.
InputNeverMissing(input) == FALSE

\* if (!input): the body has no input, or an empty one.
InputMissing(input) == input = ""

\* agentHandler up to agent.invoke: 400 without input, else the seed.
Receive(r) ==
  /\ reqs[r].pc = "idle"
  /\ \E input \in Inputs, privateKey \in PrivateKeys :
       reqs' = [reqs EXCEPT ![r] =
         IF InputMissing(input)
         THEN Answered([reqs[r] EXCEPT !.privateKey = privateKey],
                       400, "Input is required")
         ELSE [reqs[r] EXCEPT
                 !.pc = "agent",
                 !.privateKey = privateKey,
                 !.messages =
                    (IF privateKey # "" THEN <<HumanMessage("setWallet", privateKey)>>
                     ELSE <<>>) \o <<HumanMessage(input, "")>>]]
  /\ UNCHANGED <<wallet, tokenMap, txCount, calls>>

\* A handler that answers with the first message of the conversation.
ResponseOfFirst(messages) == messages[1].content

\* res.json({ response: lastMessage.content }), lastMessage being the last
\* of result.messages.
ResponseOf(messages) == Last(messages).content

\* The agent node and the router after it: the model answers with a final
\* text (END, and the handler sends the last message's content) or with
\* tool calls, which ToolNode starts as the next superstep.
AgentNode(r) ==
  /\ reqs[r].pc = "agent"
  /\ WithinRecursionLimit(reqs[r].steps)
  /\ LET q == reqs[r]
     IN \/ LET messages == Reducer(q.messages, <<AIMessage("answer", <<>>)>>)
           IN /\ ShouldContinue(messages) = "END"
              /\ reqs' = [reqs EXCEPT ![r] =
                   Answered([q EXCEPT !.messages = messages, !.steps = @ + 1],
                            200, ResponseOf(messages))]
              /\ UNCHANGED calls
        \/ \E tool_calls \in ToolCallSeqs(q) :
             LET messages == Reducer(q.messages, <<AIMessage("", tool_calls)>>)
             IN /\ ShouldContinue(messages) = "tools"
                /\ WithinRecursionLimit(q.steps + 1)
                /\ InFlight + Len(tool_calls) <= MaxInFlight
                /\ reqs' = [reqs EXCEPT ![r] =
                     [q EXCEPT !.messages = messages, !.steps = @ + 2,
                               !.pc = "tools"]]
                /\ calls' = [calls EXCEPT ![r] =
                     [i \in 1..Len(tool_calls) |->
                        NewCall(tool_calls[i].name, tool_calls[i].args)]]
  /\ UNCHANGED <<wallet, tokenMap, txCount>>

\* A callAgent that catches the model's error and answers with its text.
AgentFailsAnswered(r) ==
  /\ reqs[r].pc = "agent"
  /\ WithinRecursionLimit(reqs[r].steps)
  /\ reqs' = [reqs EXCEPT ![r] =
       Answered([reqs[r] EXCEPT !.messages = Append(@, AIMessage("model error", <<>>)),
                                !.steps = @ + 1],
                200, "model error")]
  /\ UNCHANGED <<wallet, tokenMap, txCount, calls>>

\* modelWithTools.invoke rejects: agent.invoke rejects, the handler's catch
\* answers 500 and has no messages to send.
AgentFails(r) ==
  /\ reqs[r].pc = "agent"
  /\ WithinRecursionLimit(reqs[r].steps)
  /\ reqs' = [reqs EXCEPT ![r] =
       Answered([reqs[r] EXCEPT !.messages = <<>>], 500, "model error")]
  /\ UNCHANGED <<wallet, tokenMap, txCount, calls>>

\* The graph is out of supersteps with a node still to run (the tools node
\* after a model that asks for tools, or the agent node after the tools):
\* agent.invoke rejects with the recursion error and the handler answers 500.
RecursionLimit(r) ==
  /\ reqs[r].pc = "agent"
  /\ \/ ~WithinRecursionLimit(reqs[r].steps)
     \/ /\ ~WithinRecursionLimit(reqs[r].steps + 1)
        /\ LET tool_calls == CHOOSE t \in ToolCallSeqs(reqs[r]) : TRUE
           IN ShouldContinue(Append(reqs[r].messages, AIMessage("", tool_calls))) = "tools"
  /\ reqs' = [reqs EXCEPT ![r] =
       Answered([reqs[r] EXCEPT !.messages = <<>>,
                                !.steps = IF WithinRecursionLimit(@) THEN @ + 1 ELSE @],
                500, "Recursion limit reached")]
  /\ UNCHANGED <<wallet, tokenMap, txCount, calls>>

\* A graph whose edge from the tool node leads to END: the invocation
\* answers with the last tool message.
ToolNodeDoneEnds(r) ==
  /\ reqs[r].pc = "tools"
  /\ \A p \in 1..Len(calls[r]) : calls[r][p].pc = "done"
  /\ LET messages == Reducer(reqs[r].messages,
                             [p \in 1..Len(calls[r]) |-> ToolMessage(calls[r][p])])
     IN reqs' = [reqs EXCEPT ![r] =
          Answered([@ EXCEPT !.messages = messages], 200, ResponseOf(messages))]
  /\ calls' = [calls EXCEPT ![r] = <<>>]
  /\ UNCHANGED <<wallet, tokenMap, txCount>>

\* ToolNode returns once every call has settled: one ToolMessage per call, in
\* the order of the calls, appended by the messages reducer. Were a tool's
\* Error not handled, the node would reject and the handler answer 500.
ToolNodeDone(r) ==
  /\ reqs[r].pc = "tools"
  /\ \A p \in 1..Len(calls[r]) : calls[r][p].pc = "done"
  /\ LET q == reqs[r]
         threw == {p \in 1..Len(calls[r]) : calls[r][p].out.kind = "throw"}
     IN reqs' = [reqs EXCEPT ![r] =
          IF threw # {} /\ ~HandleToolErrors
          THEN Answered([q EXCEPT !.messages = <<>>], 500,
                        calls[r][CHOOSE p \in threw : TRUE].out.msg)
          ELSE [q EXCEPT !.pc = "agent",
                         !.messages =
                            Reducer(@, [p \in 1..Len(calls[r]) |->
                                          ToolMessage(calls[r][p])])]]
  /\ calls' = [calls EXCEPT ![r] = <<>>]
  /\ UNCHANGED <<wallet, tokenMap, txCount>>

\* The response was sent; the slot serves the next request.
Release(r) ==
  /\ reqs[r].pc = "done"
  /\ reqs' = [reqs EXCEPT ![r] = Idle]
  /\ UNCHANGED <<wallet, tokenMap, txCount, calls>>

\* ------------------------------------------------------- specifications
\* The process after construction: no wallet, an empty tokenMap, no request.
Init ==
  /\ wallet = NoWallet
  /\ tokenMap = <<>>
  /\ txCount = [k \in Keys |-> 0]
  /\ reqs = [r \in Slots |-> Idle]
  /\ calls = [r \in Slots |-> <<>>]

Next ==
  \E r \in Slots :
    \/ Receive(r)
    \/ AgentNode(r)
    \/ AgentFails(r)
    \/ RecursionLimit(r)
    \/ ToolNodeDone(r)
    \/ Release(r)
    \/ \E p \in 1..MaxToolCalls : ToolStep(r, p)

Spec == Init /\ [][Next]_vars

\* One batchMixedTransfer call on its own, over many inputs: wallet k1 is
\* set (or no wallet is), tokens were created earlier by wallet k2, and the
\* model has asked for the batch with the given transfers.
ItemShapes ==
  { <<"ETH", "0xA", "1">>,
    <<"eth", "0xB", "0.5">>,
    <<"TOKEN", "0xA", "1", "MTK">>,
    <<"TOKEN", "0xB", "0.5", "MTK">>,
    <<"TOKEN", "0xA", "1", "constructor">>,
    <<"TOKEN", "0xA", "1">>,
    <<"ETH", "bad", "1">>,
    <<"ETH", "0xA", "0">>,
    <<"SOL", "0xA", "1">> }

RECURSIVE InputsOf(_)
InputsOf(n) ==
  IF n = 0 THEN {<<>>}
  ELSE {shape \o rest : shape \in ItemShapes, rest \in InputsOf(n - 1)}

\* Strings with one space too many: in front, behind, or after a word.
SpacedShapes ==
  { <<"ETH", "0xA", "1">>,
    <<"TOKEN", "0xA", "1", "MTK">>,
    <<"TOKEN", "0xB", "1">> }

Spaced(tokens, k) ==
  IF k = 0 THEN <<Space>> \o Join(tokens)
  ELSE SubSeq(Join(tokens), 1, 2 * k - 1) \o <<Space>>
       \o SubSeq(Join(tokens), 2 * k, 2 * Len(tokens) - 1)

SpacedInputs ==
  LET tokenLists == SpacedShapes
                    \cup {a \o b : a \in SpacedShapes, b \in SpacedShapes}
  IN UNION {{Spaced(tokens, k) : k \in 0..Len(tokens)} : tokens \in tokenLists}

\* Inputs that end in the middle of an item.
TruncatedInputs ==
  { Join(<<"ETH", "0xA", "1", "ETH">>),
    Join(<<"ETH", "0xA", "1", "ETH", "0xB">>),
    Join(<<"ETH", "0xA", "1", "TOKEN">>),
    Join(<<"ETH", "0xA", "1", "TOKEN", "0xB">>),
    Join(<<"TOKEN", "0xA", "1", "MTK", "eth", "0xB">>) }

BatchInputs ==
  {<<>>, Join(<<"ETH", "0xA">>)}
  \cup TruncatedInputs
  \cup {Join(tokens) : tokens \in UNION {InputsOf(n) : n \in 1..MaxItems}}
  \cup SpacedInputs

BatchRegistries ==
  { <<>>,
    <<[name |-> "MTK", address |-> ContractAddress("k2", 0)]>>,
    <<[name |-> "", address |-> ContractAddress("k2", 0)]>>,
    <<[name |-> "MTK", address |-> ContractAddress("k2", 0)],
      [name |-> "", address |-> ContractAddress("k2", 1)]>> }

BatchInit ==
  /\ wallet \in {"k1", NoWallet}
  /\ tokenMap \in BatchRegistries
  /\ txCount = [k \in Keys |-> IF k = "k2" THEN Len(tokenMap) ELSE 0]
  /\ \E transfers \in BatchInputs :
       /\ reqs = [r \in Slots |->
            IF r = 1
            THEN [Idle EXCEPT
                    !.pc = "tools", !.steps = 2,
                    !.messages =
                       <<HumanMessage("text", ""),
                         AIMessage("", <<[name |-> "batchMixedTransfer",
                                          args |-> transfers]>>)>>]
            ELSE Idle]
       /\ calls = [r \in Slots |->
            IF r = 1 THEN <<NewCall("batchMixedTransfer", transfers)>> ELSE <<>>]

BatchNext == BatchStep(1, 1)

BatchSpec == BatchInit /\ [][BatchNext]_vars

\* Two batches on their own: one AI message asks for two batchMixedTransfer
\* calls, which the tool node runs concurrently on the wallet of the session.
RaceInputs ==
  { Join(<<"ETH", "0xA", "1">>),
    Join(<<"ETH", "0xA", "1", "ETH", "0xB", "1">>),
    Join(<<"TOKEN", "0xA", "1", "MTK">>),
    Join(<<"ETH", "0xA", "0">>) }

RaceInit ==
  /\ wallet = "k1"
  /\ tokenMap \in {<<>>, <<[name |-> "MTK", address |-> ContractAddress("k2", 0)]>>}
  /\ txCount = [k \in Keys |-> IF k = "k2" THEN Len(tokenMap) ELSE 0]
  /\ \E first \in RaceInputs, second \in RaceInputs :
       /\ reqs = [r \in Slots |->
            IF r = 1
            THEN [Idle EXCEPT
                    !.pc = "tools", !.steps = 2,
                    !.messages =
                       <<HumanMessage("text", ""),
                         AIMessage("", <<[name |-> "batchMixedTransfer",
                                          args |-> first],
                                         [name |-> "batchMixedTransfer",
                                          args |-> second]>>)>>]
            ELSE Idle]
       /\ calls = [r \in Slots |->
            IF r = 1 THEN <<NewCall("batchMixedTransfer", first),
                            NewCall("batchMixedTransfer", second)>>
            ELSE <<>>]

RaceNext == \E p \in 1..2 : BatchStep(1, p)

RaceSpec == RaceInit /\ [][RaceNext]_vars

\* Two creations on their own: one AI message asks for two createToken
\* calls, with the same symbol or with different ones, which the tool node
\* runs concurrently; the registry is empty or holds a token of another
\* deployer.
CreateSymbols == {"MTK", "GLD"}

CreateInit ==
  /\ wallet = "k1"
  /\ tokenMap \in {<<>>, <<[name |-> "MTK", address |-> ContractAddress("k2", 0)]>>}
  /\ txCount = [k \in Keys |-> IF k = "k2" THEN Len(tokenMap) ELSE 0]
  /\ \E first \in CreateSymbols \X {"1", "0"}, second \in CreateSymbols \X {"1", "0"} :
       /\ reqs = [r \in Slots |->
            IF r = 1
            THEN [Idle EXCEPT
                    !.pc = "tools", !.steps = 2,
                    !.messages =
                       <<HumanMessage("text", ""),
                         AIMessage("", <<[name |-> "createToken", args |-> first],
                                         [name |-> "createToken", args |-> second]>>)>>]
            ELSE Idle]
       /\ calls = [r \in Slots |->
            IF r = 1 THEN <<NewCall("createToken", first),
                            NewCall("createToken", second)>>
            ELSE <<>>]

CreateNext ==
  \E p \in 1..2 :
    \/ CreateTokenCall(1, p)
    \/ CreateTokenDeploy(1, p)
    \/ CreateTokenWait(1, p)

CreateSpec == CreateInit /\ [][CreateNext]_vars

\* getBalance on its own: one call, with or without a wallet, on a registry
\* of up to MaxTokens tokens registered in any order.
RECURSIVE BalanceRegistries(_)
BalanceRegistries(n) ==
  IF n = 0 THEN {<<>>}
  ELSE LET shorter == BalanceRegistries(n - 1)
       IN shorter
          \cup {Append(reg, [name |-> name, address |-> ContractAddress("k2", Len(reg))]) :
                  reg \in {s \in shorter : Len(s) = n - 1},
                  name \in {"MTK", "GLD", ""}}

BalanceInit ==
  /\ wallet \in {"k1", NoWallet}
  /\ tokenMap \in {reg \in BalanceRegistries(MaxTokens) :
                     \A i, j \in 1..Len(reg) : reg[i].name = reg[j].name => i = j}
  /\ txCount = [k \in Keys |-> IF k = "k2" THEN Len(tokenMap) ELSE 0]
  /\ reqs = [r \in Slots |->
       IF r = 1
       THEN [Idle EXCEPT
               !.pc = "tools", !.steps = 2,
               !.messages =
                  <<HumanMessage("text", ""),
                    AIMessage("", <<[name |-> "getBalance", args |-> <<>>]>>)>>]
       ELSE Idle]
  /\ calls = [r \in Slots |-> IF r = 1 THEN <<NewCall("getBalance", <<>>)>> ELSE <<>>]

BalanceNext ==
  \/ GetBalanceCall(1, 1)
  \/ GetBalanceEth(1, 1)
  \/ GetBalanceToken(1, 1)

BalanceSpec == BalanceInit /\ [][BalanceNext]_vars

\* The wallet tools on their own: one AI message asks for setWallet and
\* disconnectWallet calls, with any wallet (or none) set before.
WalletToolCalls ==
  {[name |-> "setWallet", args |-> <<k>>] : k \in Keys \cup {BadKey}}
  \cup {[name |-> "disconnectWallet", args |-> <<>>]}

WalletInit ==
  /\ wallet \in Keys \cup {NoWallet}
  /\ tokenMap = <<>>
  /\ txCount = [k \in Keys |-> 0]
  /\ \E n \in 1..MaxWalletCalls : \E tool_calls \in [1..n -> WalletToolCalls] :
       /\ reqs = [r \in Slots |->
            IF r = 1
            THEN [Idle EXCEPT
                    !.pc = "tools", !.steps = 2,
                    !.messages = <<HumanMessage("text", ""),
                                   AIMessage("", tool_calls)>>]
            ELSE Idle]
       /\ calls = [r \in Slots |->
            IF r = 1
            THEN [i \in 1..n |-> NewCall(tool_calls[i].name, tool_calls[i].args)]
            ELSE <<>>]

WalletNext ==
  \E p \in 1..MaxWalletCalls :
    \/ SetWalletCall(1, p)
    \/ DisconnectWalletCall(1, p)

WalletSpec == WalletInit /\ [][WalletNext]_vars

\* One transferTokens call on its own, over many arguments.
TransferInputs ==
  {<<to, amount>> : to \in {"0xA", "0xB", "bad", ""},
                    amount \in {"1", "2", "0.5", "0", "-1", "abc", ""}}

TransferInit ==
  /\ wallet \in Keys \cup {NoWallet}
  /\ tokenMap = <<>>
  /\ txCount = [k \in Keys |-> 0]
  /\ \E args \in TransferInputs :
       /\ reqs = [r \in Slots |->
            IF r = 1
            THEN [Idle EXCEPT
                    !.pc = "tools", !.steps = 2,
                    !.messages =
                       <<HumanMessage("text", ""),
                         AIMessage("", <<[name |-> "transferTokens",
                                          args |-> args]>>)>>]
            ELSE Idle]
       /\ calls = [r \in Slots |->
            IF r = 1 THEN <<NewCall("transferTokens", args)>> ELSE <<>>]

TransferNext ==
  \/ TransferTokensCall(1, 1)
  \/ TransferTokensSend(1, 1)
  \/ TransferTokensWait(1, 1)

TransferSpec == TransferInit /\ [][TransferNext]_vars


\* ------------------------------------------------------- claims: the batch
\* The transfers string tokenized by whitespace: its words.
Words(str) == SelectSeq(str, LAMBDA t : t # Space)

\* The batch calls in flight or finished.
BatchCalls ==
  {c \in UNION {{calls[r][p] : p \in 1..Len(calls[r])} : r \in Slots} :
     c.op = "batchMixedTransfer"}

\* C1 (Nonce monotonicity). Every transaction a batch submits for item i
\* (0-indexed) carries the nonce baseNonce + i, baseNonce being the nonce read
\* at the start of the batch, also when an earlier item failed.
NonceMonotonicity ==
  \A c \in BatchCalls :
    \A k \in 1..Len(c.sent) : c.sent[k].nonce = c.baseNonce + c.sent[k].idx

\* C2 (Batch order preservation). The report of a batch that passed
\* validation holds exactly one entry per item, entry k describing item k.
BatchOrderPreservation ==
  \A c \in BatchCalls :
    (c.pc = "done" /\ c.out.msg = "batch completed")
      => /\ c.out.count = Len(c.transferList)
         /\ \A k \in 1..c.out.count :
              /\ c.out.data[k].num = k
              /\ c.out.data[k].to = c.transferList[k].to
              /\ c.out.data[k].amount = c.transferList[k].amount

\* C3 (All-or-nothing validation). A batch with an item that fails static
\* validation (unrecognized kind marker, invalid recipient, amount that is not
\* a positive number, asset name missing or not registered) reads no nonce
\* and submits nothing.
AllOrNothingValidation ==
  \A c \in BatchCalls :
    LET parts == Words(c.arg)
        bad[j \in 0..Len(parts)] ==
          LET i == Len(parts) - j
              type == ToUpperCase(At(parts, i))
              next == i + (IF type = "TOKEN" THEN 4 ELSE 3)
          IN IF j = 0 THEN FALSE
             ELSE \/ type \notin {"ETH", "TOKEN"}
                  \/ ~IsAddress(At(parts, i + 1))
                  \/ NumberOf(At(parts, i + 2)) # "positive"
                  \/ type = "TOKEN" /\ At(parts, i + 3) \notin OwnNames
                  \/ next < Len(parts) /\ bad[Len(parts) - next]
    IN (Len(parts) < 3 \/ bad[Len(parts)]) => (c.reads = 0 /\ c.sent = <<>>)

\* C4 (Partial-failure isolation). Once the nonce is read, the execution loop
\* enters the items one by one in order, a failure is recorded for the item
\* that failed and for no other, and the batch ends only after the loop has
\* entered every item.
PartialFailureIsolation ==
  \A c \in BatchCalls :
    c.baseNonce >= 0
      => /\ \A k \in 1..Len(c.visited) : c.visited[k] = k - 1
         /\ c.pc \in {"send", "wait"} => Len(c.visited) = c.idx + 1
         /\ c.pc = "done" => /\ Len(c.visited) = Len(c.transferList)
                             /\ c.out.msg = "batch completed"
         /\ \A k \in 1..Len(c.results) :
              /\ c.results[k].num - 1 \in {c.visited[j] : j \in 1..Len(c.visited)}
              /\ c.results[k].to = c.transferList[c.results[k].num].to
              /\ k > 1 => c.results[k - 1].num < c.results[k].num

\* A finished batch in which an item failed and a later item was submitted.
PartialFailureIsolationWitness ==
  \E c \in BatchCalls :
    /\ c.pc = "done"
    /\ \E k \in 1..Len(c.results), j \in 1..Len(c.sent) :
         /\ c.results[k].status = "Failed"
         /\ c.sent[j].idx + 1 > c.results[k].num


\* ------------------------------------------------------ claims: the system
\* The operations that need the wallet.
GatedOps ==
  {"transferTokens", "signMessage", "createToken", "batchMixedTransfer",
   "getBalance", "getTransactionHistory"}

\* C5 (Session gating). An operation that needs the wallet and found none
\* when it was invoked has returned the "No wallet set" text and has made no
\* chain read, signed nothing and submitted nothing.
SessionGating ==
  \A r \in Slots : \A p \in 1..Len(calls[r]) :
    LET c == calls[r][p]
    IN (c.op \in GatedOps /\ c.pc # "start" /\ c.w = NoWallet)
         => /\ c.pc = "done"
            /\ c.out = Return("No wallet set", "")
            /\ c.reads = 0
            /\ c.sent = <<>>
            /\ c.signatures = 0

\* getTransactionHistory, invoked with no wallet set, has answered
\* "No wallet set".
SessionGatingWitness ==
  \E r \in Slots : \E p \in 1..Len(calls[r]) :
    /\ calls[r][p].op = "getTransactionHistory"
    /\ calls[r][p].pc = "done"
    /\ calls[r][p].w = NoWallet
    /\ calls[r][p].out.msg = "No wallet set"

\* C6 (Session independence). An invocation that supplied no private key
\* never signs or submits anything: a wallet set by another invocation is
\* not there for it.
SessionIndependence ==
  \A r \in Slots : \A p \in 1..Len(calls[r]) :
    reqs[r].privateKey = ""
      => (calls[r][p].sent = <<>> /\ calls[r][p].signatures = 0)

\* The AI messages of a conversation.
AIMessages(messages) == {k \in 1..Len(messages) : messages[k].type = "ai"}

\* C7 (Loop termination). An invocation never runs more supersteps than the
\* recursion limit, so never more model turns than half of it (rounded up),
\* whatever the model asks for.
LoopTermination ==
  \A r \in Slots :
    /\ reqs[r].steps <= recursionLimit
    /\ 2 * Cardinality(AIMessages(reqs[r].messages)) <= recursionLimit + 1

\* The model asked for tools on every turn and the invocation was ended.
LoopTerminationWitness ==
  \E r \in Slots :
    /\ reqs[r].pc = "done"
    /\ reqs[r].steps = recursionLimit
    /\ reqs[r].response = "Recursion limit reached"

\* C8 (No crash from an operation failure). When the tool calls of a turn
\* have settled, failed ones included, each one's text is appended to the
\* conversation as its result and the loop goes on to the model; a 500 comes
\* only from the model failing or from the recursion limit.
NoCrashFromOperationFailure ==
  [][\A r \in Slots :
       /\ (reqs[r].pc = "tools" /\ reqs'[r].pc # "tools")
            => /\ reqs'[r].pc = "agent"
               /\ Len(reqs'[r].messages) = Len(reqs[r].messages) + Len(calls[r])
               /\ \A p \in 1..Len(calls[r]) :
                    LET m == reqs'[r].messages[Len(reqs[r].messages) + p]
                    IN /\ m.type = "tool"
                       /\ m.content = calls[r][p].out.msg
       /\ reqs'[r].status = 500
            => reqs'[r].response \in {"model error", "Recursion limit reached"}]_vars

\* A 200 was sent for a conversation in which an operation had thrown.
NoCrashFromOperationFailureWitness ==
  \E r \in Slots :
    /\ reqs[r].pc = "done"
    /\ reqs[r].status = 200
    /\ reqs[r].response = "answer"
    /\ \E k \in 1..Len(reqs[r].messages) :
         reqs[r].messages[k].type = "tool" /\ reqs[r].messages[k].error

\* C9 (No signing while the wallet is absent). No call signs a message or
\* signs and submits a transaction in a step taken while no wallet is set.
NoSigningWhileAbsent ==
  [][\A r \in Slots : \A p \in 1..Len(calls[r]) :
       (/\ p <= Len(calls'[r])
        /\ \/ Len(calls'[r][p].sent) > Len(calls[r][p].sent)
           \/ calls'[r][p].signatures > calls[r][p].signatures)
         => wallet # NoWallet]_vars

\* C10 (Credential persistence). The wallet changes only in a step of a
\* setWallet that succeeds, to the wallet of its key, or of a
\* disconnectWallet, to none; no other step of any operation or of the turn
\* loop changes it.
CredentialPersistence ==
  [][wallet' # wallet
       => \E r \in Slots : \E p \in 1..Len(calls[r]) :
            /\ calls[r][p].pc = "start"
            /\ calls'[r][p].pc = "done"
            /\ \/ /\ calls[r][p].op = "setWallet"
                  /\ calls'[r][p].out.kind = "return"
                  /\ wallet' = calls[r][p].arg[1]
               \/ /\ calls[r][p].op = "disconnectWallet"
                  /\ wallet' = NoWallet]_vars

\* The wallet set by an earlier invocation is still set after a later
\* invocation ran other operations, one of which failed.
CredentialPersistenceWitness ==
  \E r \in Slots :
    /\ wallet = "k1"
    /\ reqs[r].privateKey # "k1"
    /\ reqs[r].pc = "agent"
    /\ \E k \in 1..Len(reqs[r].messages) :
         reqs[r].messages[k].type = "tool" /\ reqs[r].messages[k].error


\* ------------------------------------------------- claims: the wallet tools
\* C11 (setCredential). A setWallet call whose key cannot be parsed fails
\* and leaves the wallet as it was; one whose key parses sets the wallet to
\* that key's wallet, whatever was set before, and returns its address.
SetCredential ==
  [][\A r \in Slots : \A p \in 1..Len(calls[r]) :
       (/\ calls[r][p].op = "setWallet"
        /\ calls[r][p].pc = "start"
        /\ calls'[r][p].pc = "done")
         => IF calls[r][p].arg[1] \in Keys
            THEN /\ wallet' = calls[r][p].arg[1]
                 /\ calls'[r][p].out = Return("Wallet set to address", wallet')
            ELSE /\ wallet' = wallet
                 /\ calls'[r][p].out.kind = "throw"]_vars

\* With k1 set, a setWallet with a bad key has failed, one with k2 has
\* succeeded, and the wallet is k2's.
SetCredentialWitness ==
  /\ wallet = "k2"
  /\ \E p, q \in 1..Len(calls[1]) :
       /\ calls[1][p].op = "setWallet" /\ calls[1][p].out.kind = "throw"
       /\ calls[1][q].op = "setWallet" /\ calls[1][q].out.detail = "k2"
  /\ \E p \in 1..Len(calls[1]) :
       calls[1][p].op = "setWallet" /\ calls[1][p].out.detail = "k1"

\* C12 (Idempotent session clear). Every disconnectWallet returns normally
\* and leaves no wallet set; one that runs with no wallet set changes
\* nothing of the process state.
IdempotentSessionClear ==
  [][\A r \in Slots : \A p \in 1..Len(calls[r]) :
       (/\ calls[r][p].op = "disconnectWallet"
        /\ calls[r][p].pc = "start"
        /\ calls'[r][p].pc = "done")
         => /\ wallet' = NoWallet
            /\ calls'[r][p].out = Return("Wallet disconnected successfully", "")
            /\ wallet = NoWallet
                 => <<wallet, tokenMap, txCount>>' = <<wallet, tokenMap, txCount>>]_vars

\* Two disconnectWallet calls have returned after a wallet was set.
IdempotentSessionClearWitness ==
  /\ wallet = NoWallet
  /\ \E p, q \in 1..Len(calls[1]) :
       /\ p # q
       /\ calls[1][p].op = "disconnectWallet" /\ calls[1][p].pc = "done"
       /\ calls[1][q].op = "disconnectWallet" /\ calls[1][q].pc = "done"
  /\ \E p \in 1..Len(calls[1]) :
       calls[1][p].op = "setWallet" /\ calls[1][p].out.kind = "return"


\* ------------------------------------------------ claims: batch validation
\* C13 (Unregistered asset name). A batch with a TOKEN item whose name is
\* no key that createToken registered is rejected by the validation: it
\* reads no nonce, submits nothing, and when the answer is "Token not found"
\* it names a name that is not registered.
UnregisteredAssetName ==
  \A c \in BatchCalls :
    LET parts == Words(c.arg)
        unregistered[j \in 0..Len(parts)] ==
          LET i == Len(parts) - j
              type == ToUpperCase(At(parts, i))
              next == i + (IF type = "TOKEN" THEN 4 ELSE 3)
          IN IF j = 0 THEN FALSE
             ELSE \/ /\ type = "TOKEN"
                     /\ i + 3 < Len(parts)
                     /\ At(parts, i + 3) \notin OwnNames
                  \/ next < Len(parts) /\ unregistered[Len(parts) - next]
    IN (c.pc # "start" /\ c.w # NoWallet /\ unregistered[Len(parts)])
         => /\ c.reads = 0
            /\ c.sent = <<>>
            /\ c.pc = "done"
            /\ c.out.kind = "return"
            /\ c.out.msg \in {"Token not found", "Invalid type", "Invalid address",
                              "Invalid amount", "Missing token name", "Invalid format"}
            /\ c.out.msg = "Token not found" => c.out.detail \notin OwnNames

\* C14 (Batch NoSession). A batchMixedTransfer that found no wallet set has
\* returned "No wallet set" at once: nothing was parsed, no nonce was read
\* and nothing was submitted, whatever its transfers are.
BatchNoSession ==
  \A c \in BatchCalls :
    (c.pc # "start" /\ c.w = NoWallet)
      => /\ c.pc = "done"
         /\ c.out = Return("No wallet set", "")
         /\ c.transferList = <<>>
         /\ c.baseNonce = -1
         /\ c.reads = 0
         /\ c.sent = <<>>

\* Without a wallet, a batch of valid items has answered "No wallet set".
BatchNoSessionWitness ==
  \E c \in BatchCalls :
    /\ c.w = NoWallet
    /\ c.pc = "done"
    /\ c.out.msg = "No wallet set"
    /\ Len(Words(c.arg)) >= 3
    /\ ParseTransfers(Words(c.arg), 0, <<>>).ok


\* C15 (baseNonce is read once). A batch reads the nonce at most once; it
\* has read it exactly once when validation has succeeded, and so before
\* anything is submitted, and the count stays at one while the items run.
BaseNonceReadOnce ==
  \A c \in BatchCalls :
    /\ c.reads <= 1
    /\ c.reads = 1 <=> c.pc \in {"getNonce", "send", "wait"} \/ c.visited # <<>>
                       \/ c.out.msg \in {"batch completed", "could not read nonce"}
    /\ c.reads = 1 => (/\ c.transferList # <<>>
                        /\ ParseTransfers(Split(Trim(c.arg)), 0, <<>>).ok)
    /\ c.sent # <<>> => (c.reads = 1 /\ c.baseNonce >= 0)

\* A batch has submitted two items and finished, with one nonce read.
BaseNonceReadOnceWitness ==
  \E c \in BatchCalls :
    /\ c.pc = "done"
    /\ Len(c.sent) >= 2
    /\ c.reads = 1

\* ---------------------------------------------- claims: loop and handler
\* C16 (Terminal answer). A 200 is sent exactly for a conversation whose
\* last message is a model response without tool calls, every earlier model
\* response carried tool calls, and the response sent is the content of
\* that last message; the tools run only after a response with tool calls.
TerminalAnswer ==
  \A r \in Slots :
    LET messages == reqs[r].messages
    IN /\ reqs[r].status = 200
            => /\ Last(messages).type = "ai"
               /\ Last(messages).tool_calls = <<>>
               /\ reqs[r].response = Last(messages).content
               /\ \A k \in AIMessages(messages) \ {Len(messages)} :
                    messages[k].tool_calls # <<>>
       /\ reqs[r].pc = "tools"
            => (Last(messages).type = "ai" /\ Last(messages).tool_calls # <<>>)
       /\ reqs[r].pc = "agent" => Last(messages).type \in {"human", "tool"}

\* After a turn of tools the model has answered and the answer was sent.
TerminalAnswerWitness ==
  \E r \in Slots :
    /\ reqs[r].status = 200
    /\ reqs[r].response = "answer"
    /\ \E k \in 1..Len(reqs[r].messages) : reqs[r].messages[k].type = "tool"

\* C17 (ResolverFailure). An invocation in which the model failed has been
\* answered with status 500 and the error, without a conversation result,
\* and no tool call is started or running for it.
ResolverFailure ==
  \A r \in Slots :
    /\ reqs[r].response = "model error"
         => /\ reqs[r].pc = "done"
            /\ reqs[r].status = 500
            /\ reqs[r].messages = <<>>
    /\ reqs[r].pc = "done" => calls[r] = <<>>

\* The model failed on its second turn, after a tool had run.
ResolverFailureWitness ==
  \E r \in Slots :
    /\ reqs[r].status = 500
    /\ reqs[r].response = "model error"
    /\ reqs[r].steps = 2

\* C18 (HTTP input check). A request without input is answered 400 in the
\* step that receives it, with no conversation, no superstep and no tool
\* call, and with the wallet and tokenMap as they were, key or no key; and
\* no conversation ever holds an empty input.
HttpInputCheck ==
  [][\A r \in Slots :
       /\ reqs'[r].status = 400
            => /\ reqs'[r].pc = "done"
               /\ reqs'[r].messages = <<>>
               /\ reqs'[r].steps = 0
               /\ calls'[r] = <<>>
               /\ reqs[r].pc = "idle"
                    => <<wallet, tokenMap, txCount, calls>>'
                         = <<wallet, tokenMap, txCount, calls>>
       /\ \A k \in 1..Len(reqs'[r].messages) :
            reqs'[r].messages[k].type = "human" => reqs'[r].messages[k].content # ""]_vars

\* A request with a key and no input was answered 400 and no wallet is set.
HttpInputCheckWitness ==
  \E r \in Slots :
    /\ reqs[r].status = 400
    /\ reqs[r].privateKey = "k1"
    /\ wallet = NoWallet


RegistryGrowth ==
  [][/\ OwnNames \subseteq {tokenMap'[i].name : i \in 1..Len(tokenMap')}
     /\ \A i, j \in 1..Len(tokenMap') :
          tokenMap'[i].name = tokenMap'[j].name => i = j
     /\ tokenMap' # tokenMap
          => \E r \in Slots : \E p \in 1..Len(calls[r]) :
               /\ calls[r][p].op = "createToken"
               /\ calls[r][p].pc = "waitForDeployment"
               /\ calls'[r][p].out = Return("Token created", calls[r][p].arg[1])
               /\ \A i \in 1..Len(tokenMap) :
                    tokenMap[i].name # calls[r][p].arg[1]
                      => tokenMap'[i] = tokenMap[i]
               /\ \E i \in 1..Len(tokenMap') :
                    /\ tokenMap'[i].name = calls[r][p].arg[1]
                    /\ tokenMap'[i].address = ContractAddress(calls[r][p].w, calls[r][p].nonce)]_vars

\* MTK was created, then created again, and is registered once, at the
\* address of the second contract.
RegistryGrowthWitness ==
  /\ Len(tokenMap) = 1
  /\ tokenMap[1].name = "MTK"
  /\ tokenMap[1].address = ContractAddress("k1", 1)


\* ------------------------------------------------- claims: batch execution
\* C21 (Strictly sequential batch). Every transaction a batch has submitted
\* has its result recorded, except the one submitted last while the batch
\* awaits its receipt; a batch submits its items in increasing order.
StrictlySequentialBatch ==
  \A c \in BatchCalls :
    \A j \in 1..Len(c.sent) :
      /\ \/ \E k \in 1..Len(c.results) : c.results[k].num = c.sent[j].idx + 1
         \/ j = Len(c.sent) /\ c.pc = "wait" /\ c.idx = c.sent[j].idx
      /\ j > 1 => c.sent[j - 1].idx < c.sent[j].idx

\* The first item failed after it was submitted and the second is awaited.
StrictlySequentialBatchWitness ==
  \E c \in BatchCalls :
    /\ c.pc = "wait"
    /\ Len(c.sent) = 2
    /\ c.results # <<>>
    /\ c.results[1].status = "Failed"

\* C23 (Batch report). The report of a batch lists one entry per item,
\* numbered 1..N in input order, each with the item's label, recipient and
\* amount and a status, Successful with a transaction link and no error or
\* Failed with an error and no link; the count it states is N.
BatchReport ==
  \A c \in BatchCalls :
    (c.pc = "done" /\ c.out.msg = "batch completed")
      => /\ c.out.count = Len(c.transferList)
         /\ Len(c.out.data) = c.out.count
         /\ \A k \in 1..Len(c.out.data) :
              LET entry == c.out.data[k]
              IN /\ entry.num = k
                 /\ k <= Len(c.transferList)
                 /\ entry.label = ItemLabel(c.transferList[k])
                 /\ entry.to = c.transferList[k].to
                 /\ entry.amount = c.transferList[k].amount
                 /\ entry.status \in {"Successful", "Failed"}
                 /\ entry.status = "Successful" <=> entry.link # <<>>
                 /\ entry.status = "Failed" <=> entry.error # ""

\* C30 (Nonce advance rule of the code). Every transaction a batch submits
\* for item i carries baseNonce plus the number of earlier items recorded as
\* Successful.
NonceAdvanceRule ==
  \A c \in BatchCalls :
    \A j \in 1..Len(c.sent) :
      c.sent[j].nonce
        = c.baseNonce
          + Cardinality({k \in 1..Len(c.results) :
                           /\ c.results[k].num <= c.sent[j].idx
                           /\ c.results[k].status = "Successful"})


\* C27 (Batch parsing). For every transfer string whose whitespace-separated
\* words form a well-formed sequence of items (3 words for ETH, 4 for TOKEN),
\* however the words are separated, the item list of the batch is the list
\* of those items in order, each with its type, recipient, amount and name.
BatchParsing ==
  \A c \in BatchCalls :
    LET words == Words(c.arg)
        pr == ParseTransfers(words, 0, <<>>)
    IN (c.pc # "start" /\ c.w # NoWallet /\ Len(words) >= 3 /\ pr.ok)
         => c.transferList = pr.transferList


\* C22 (No cross-batch lock). A batch is never held back by another batch:
\* while one batch of the session is between its nonce read and its summary,
\* another batch that has not started can run its validation and issue its
\* own nonce read. (The witness is the race: two batches of one session with
\* the same baseNonce that both submitted a transaction with the same nonce.)
NoCrossBatchLock ==
  \A r \in Slots : \A p, q \in 1..Len(calls[r]) :
    ( /\ calls[r][p].op = "batchMixedTransfer"
      /\ calls[r][p].pc = "start"
      /\ calls[r][q].op = "batchMixedTransfer"
      /\ calls[r][q].pc \in {"getNonce", "send", "wait"} )
      => ENABLED BatchMixedTransferCall(r, p)

NoCrossBatchLockWitness ==
  \E r \in Slots : \E p, q \in 1..Len(calls[r]) :
    LET c == calls[r][p]
        d == calls[r][q]
    IN /\ p # q
       /\ c.op = "batchMixedTransfer" /\ d.op = "batchMixedTransfer"
       /\ c.baseNonce >= 0 /\ c.baseNonce = d.baseNonce
       /\ \E j \in 1..Len(c.sent) : \E k \in 1..Len(d.sent) :
            /\ c.sent[j].nonce = d.sent[k].nonce
            /\ c.sent[j].signer = d.sent[k].signer


\* ---------------------------------------------------- claims: conversation
\* C26 (Append-only conversation). Every step of the agent node or of the
\* tool node that does not fail the invocation leaves the conversation equal
\* to the conversation before it followed by at least one new message; the
\* conversation an invocation starts with is the setWallet turn, when the
\* request carries a private key, followed by the user's input.
AppendOnlyConversation ==
  [][\A r \in Slots :
       LET q == reqs[r]
           n == reqs'[r]
       IN /\ (q.pc \in {"agent", "tools"} /\ n # q /\ n.status # 500)
               => /\ Len(n.messages) > Len(q.messages)
                  /\ SubSeq(n.messages, 1, Len(q.messages)) = q.messages
          /\ (q.pc = "idle" /\ n.pc = "agent")
               => \E input \in Inputs \ {""} :
                    n.messages =
                      IF n.privateKey # ""
                      THEN <<HumanMessage("setWallet", n.privateKey),
                             HumanMessage(input, "")>>
                      ELSE <<HumanMessage(input, "")>>]_vars

\* An invocation seeded with both turns whose conversation has since grown
\* by an AI message, its tool messages and the final answer.
AppendOnlyConversationWitness ==
  \E r \in Slots :
    /\ reqs[r].pc = "done"
    /\ reqs[r].status = 200
    /\ reqs[r].privateKey # ""
    /\ Len(reqs[r].messages) >= 5
    /\ reqs[r].messages[1] = HumanMessage("setWallet", reqs[r].privateKey)
    /\ reqs[r].messages[2] = HumanMessage("text", "")
    /\ reqs[r].messages[3].type = "ai"
    /\ reqs[r].messages[4].type = "tool"


\* C24 (Turn loop alternation). An invocation starts at the agent node, with
\* no tool call running; tool calls run only while the invocation is at the
\* tool node, which is entered only from the agent node and only when the AI
\* message just appended carries tool calls, one call per request; the tool
\* node is left only towards the agent node, with one tool message appended
\* per call.
TurnLoopAlternation ==
  [][\A r \in Slots :
       LET q == reqs[r]
           n == reqs'[r]
       IN /\ (q.pc = "idle" /\ n.pc # "idle")
               => n.pc \in {"agent", "done"} /\ calls'[r] = <<>>
          /\ calls'[r] # <<>> => n.pc = "tools"
          /\ (q.pc # "tools" /\ n.pc = "tools")
               => /\ q.pc = "agent"
                  /\ Len(n.messages) = Len(q.messages) + 1
                  /\ Last(n.messages).type = "ai"
                  /\ Len(Last(n.messages).tool_calls) > 0
                  /\ Len(calls'[r]) = Len(Last(n.messages).tool_calls)
                  /\ \A p \in 1..Len(calls'[r]) :
                       /\ calls'[r][p].pc = "start"
                       /\ calls'[r][p].op = Last(n.messages).tool_calls[p].name
          /\ (q.pc = "tools" /\ n.pc # "tools")
               => /\ n.pc = "agent"
                  /\ Len(n.messages) = Len(q.messages) + Len(calls[r])
                  /\ \A k \in (Len(q.messages) + 1)..Len(n.messages) :
                       n.messages[k].type = "tool"]_vars

\* The tool node has run and the invocation is back at the agent node.
TurnLoopAlternationWitness ==
  \E r \in Slots :
    /\ reqs[r].pc = "agent"
    /\ reqs[r].steps = 2
    /\ Last(reqs[r].messages).type = "tool"
    /\ calls[r] = <<>>


\* C25 (Single thread of control per invocation). Of the tool calls of one
\* invocation at most one is under way (started and not yet settled) at any
\* time.
SingleThreadOfControl ==
  \A r \in Slots :
    Cardinality({p \in 1..Len(calls[r]) :
                   calls[r][p].pc \notin {"start", "done"}}) <= 1


\* C29 (No automatic retry). A tool call submits at most one transaction,
\* and a batch at most one per item: it enters each item once, no two of
\* its submissions are for the same item, and it reads the nonce once.
NoAutomaticRetry ==
  \A r \in Slots : \A p \in 1..Len(calls[r]) :
    LET c == calls[r][p]
    IN /\ c.op # "batchMixedTransfer" => Len(c.sent) <= 1
       /\ c.op = "batchMixedTransfer" => Len(c.sent) <= Len(c.transferList)
       /\ \A j, k \in 1..Len(c.sent) : j # k => c.sent[j].idx # c.sent[k].idx
       /\ \A j, k \in 1..Len(c.visited) : j # k => c.visited[j] # c.visited[k]
       /\ c.op = "batchMixedTransfer" => c.reads <= 1

\* A batch whose first item was submitted and failed, and which went on to
\* its second item and finished without submitting the first item again.
NoAutomaticRetryWitness ==
  \E r \in Slots : \E p \in 1..Len(calls[r]) :
    LET c == calls[r][p]
    IN /\ c.op = "batchMixedTransfer"
       /\ c.pc = "done"
       /\ Len(c.results) = 2
       /\ c.results[1].status = "Failed"
       /\ Len(c.sent) = 1
       /\ c.sent[1].idx = 0


\* ------------------------------------------------------- claims: registry
\* The createToken calls that have answered that they created a token of
\* this name.
Created(name) ==
  {p \in 1..Len(calls[1]) :
     /\ calls[1][p].op = "createToken"
     /\ calls[1][p].pc = "done"
     /\ calls[1][p].out = Return("Token created", name)}

\* C28 (Registry under concurrent creation). Whatever the interleaving of the
\* createToken calls, the registry holds each name once; a name no call
\* succeeded for is as it was before the calls; a name some calls succeeded
\* for is registered with the whole address of the deployment of the last
\* of them.
RegistryUnderConcurrentCreation ==
  /\ \A i, j \in 1..Len(tokenMap) : tokenMap[i].name = tokenMap[j].name => i = j
  /\ \A name \in CreateSymbols :
       LET entries == {i \in 1..Len(tokenMap) : tokenMap[i].name = name}
       IN IF Created(name) = {}
          THEN \A i \in entries : tokenMap[i].address = ContractAddress("k2", 0)
          ELSE LET last == CHOOSE p \in Created(name) :
                             \A q \in Created(name) :
                               calls[1][q].nonce <= calls[1][p].nonce
               IN /\ entries # {}
                  /\ \A i \in entries :
                       tokenMap[i].address
                         = ContractAddress(calls[1][last].w, calls[1][last].nonce)

\* Both calls created a token of the same name, already registered before:
\* the name is registered once, with the address of the later deployment.
RegistryUnderConcurrentCreationWitness ==
  /\ Created("MTK") = {1, 2}
  /\ calls[1][2].nonce < calls[1][1].nonce
  /\ Len(tokenMap) = 1
  /\ tokenMap[1].address = ContractAddress("k1", calls[1][1].nonce)


\* ------------------------------------------------ claims: implicit rules
\* C31 (One signer per batch). A batch captures the wallet of the session
\* when it starts and keeps it; the nonce it reads as baseNonce is that
\* wallet's, and every transaction it submits is signed by that wallet,
\* whatever setWallet or disconnectWallet do to the session meanwhile.
OneSignerPerBatch ==
  [][\A r \in Slots : \A p \in 1..Len(calls[r]) :
       (calls[r][p].op = "batchMixedTransfer" /\ Len(calls'[r]) >= p)
         => LET c == calls[r][p]
                n == calls'[r][p]
            IN /\ (c.pc = "start" /\ n.pc # "start") => n.w = wallet
               /\ c.pc # "start" => n.w = c.w
               /\ (c.baseNonce < 0 /\ n.baseNonce >= 0)
                    => n.baseNonce = txCount[c.w]
               /\ Len(n.sent) > Len(c.sent)
                    => /\ Last(n.sent).signer = c.w
                       /\ c.w # NoWallet]_vars

\* A batch has submitted a transaction signed by the wallet it started
\* with, while the session holds no wallet any more.
OneSignerPerBatchWitness ==
  \E r \in Slots : \E p \in 1..Len(calls[r]) :
    /\ calls[r][p].op = "batchMixedTransfer"
    /\ calls[r][p].sent # <<>>
    /\ Last(calls[r][p].sent).signer = calls[r][p].w
    /\ calls[r][p].baseNonce >= 0
    /\ wallet = NoWallet


\* C32 (createToken failure leaves the registry unchanged). A step of a
\* createToken call changes the registry only when it is the step in which
\* the call answers that the token was created, which comes after its
\* deployment was submitted and confirmed; every other step of the call,
\* each way of failing included, leaves the registry as it was; a call whose
\* total supply is not a positive number submits no deployment.
CreateTokenFailureFrame ==
  [][\A r \in Slots : \A p \in 1..Len(calls[r]) :
       (calls[r][p].op = "createToken" /\ Len(calls'[r]) >= p
          /\ calls'[r][p] # calls[r][p])
         => LET c == calls[r][p]
                n == calls'[r][p]
                created == n.pc = "done" /\ n.out = Return("Token created", c.arg[1])
            IN /\ ~created => tokenMap' = tokenMap
               /\ created => /\ c.pc = "waitForDeployment"
                             /\ c.sent # <<>>
                             /\ txCount'[c.w] = c.nonce + 1
               /\ ParseIntOf(c.arg[2]) # "positive"
                    => n.sent = <<>> /\ n.pc = "done"]_vars

\* A createToken call has failed after its deployment was submitted, and
\* the registry is still empty.
CreateTokenFailureFrameWitness ==
  \E r \in Slots : \E p \in 1..Len(calls[r]) :
    /\ calls[r][p].op = "createToken"
    /\ calls[r][p].pc = "done"
    /\ calls[r][p].out.kind = "throw"
    /\ calls[r][p].sent # <<>>
    /\ tokenMap = <<>>


\* The walk over the words from index i on stops in the middle of an item:
\* an ETH marker with fewer than 2 words after it, or a TOKEN marker with
\* fewer than 3.
RECURSIVE Truncated(_, _)
Truncated(words, i) ==
  IF i >= Len(words) THEN FALSE
  ELSE LET type == ToUpperCase(words[i + 1])
           size == IF type = "TOKEN" THEN 4 ELSE 3
       IN IF type \notin {"ETH", "TOKEN"} THEN FALSE
          ELSE IF i + size > Len(words) THEN TRUE
          ELSE Truncated(words, i + size)

\* C33 (Truncated batch input). A batch whose words end in the middle of an
\* item builds no item list, reads no nonce and submits nothing, and answers
\* with a rejection; no item of any batch has a recipient, an amount or, for
\* a TOKEN item, a name taken from past the end of the input.
TruncatedBatchInput ==
  \A c \in BatchCalls :
    /\ Truncated(Words(c.arg), 0)
         => /\ c.reads = 0
            /\ c.sent = <<>>
            /\ c.transferList = <<>>
            /\ c.pc = "done" => /\ c.out.kind = "return"
                                /\ c.out.msg # "batch completed"
    /\ \A k \in 1..Len(c.transferList) :
         /\ c.transferList[k].to # Undefined
         /\ c.transferList[k].amount # Undefined
         /\ c.transferList[k].type = "TOKEN"
              => c.transferList[k].tokenName # Undefined

\* A batch with a wallet was rejected because the amount of its last ETH
\* item lies past the end of the input.
TruncatedBatchInputWitness ==
  \E c \in BatchCalls :
    /\ c.pc = "done"
    /\ c.w # NoWallet
    /\ Truncated(Words(c.arg), 0)
    /\ c.out = Return("Invalid amount", Undefined)


\* C34 (getBalance isolation). getBalance takes the entries of the registry
\* when the ETH balance has answered, and from then on its lines are the ETH
\* line followed by one line per entry read so far, in the order of the
\* entries, each either the balance or "Unable to fetch" for that entry's
\* token; it returns when it has a line for every entry, and returns them
\* all.
GetBalanceIsolation ==
  [][\A r \in Slots : \A p \in 1..Len(calls[r]) :
       (calls[r][p].op = "getBalance" /\ Len(calls'[r]) >= p
          /\ calls'[r][p] # calls[r][p])
         => LET c == calls[r][p]
                n == calls'[r][p]
                returned == n.pc = "done" /\ n.out.msg = "balances"
            IN /\ (c.pc = "ethBalance" /\ n.balances # <<>>) => n.entries = tokenMap
               /\ c.pc = "balanceOf" => n.entries = c.entries
               /\ (n.pc = "balanceOf" \/ returned)
                    => /\ n.balances[1] = [name |-> "ETH", line |-> "Balance"]
                       /\ Len(n.balances) = 1 + n.idx
                       /\ \A k \in 1..n.idx :
                            /\ n.balances[k + 1].name = n.entries[k].name
                            /\ n.balances[k + 1].line \in {"Balance", "Unable to fetch"}
               /\ n.pc = "balanceOf" => n.idx < Len(n.entries)
               /\ returned => /\ n.idx = Len(n.entries)
                              /\ n.out.data = n.balances
                              /\ n.out.count = 1 + Len(n.entries)]_vars

\* The read of the first token failed and the lines of the tokens after it
\* are there, with their balances.
GetBalanceIsolationWitness ==
  \E r \in Slots : \E p \in 1..Len(calls[r]) :
    LET c == calls[r][p]
    IN /\ c.op = "getBalance"
       /\ c.pc = "done"
       /\ c.out.msg = "balances"
       /\ Len(c.out.data) = 4
       /\ c.out.data[2].line = "Unable to fetch"
       /\ c.out.data[3].line = "Balance"
       /\ c.out.data[4].line = "Balance"

=============================================================================
